---------------------------- MODULE Spec2Model ----------------------------
(***************************************************************************)
(* A model of PubsubValueStore (src/pubsub.go) for one key: the            *)
(* subscription map entry p.subs[key], the watch map entry                 *)
(* p.watching[key], the three locks (p.mx, p.watchLk, wg.lk), the          *)
(* datastore entry of the key, the pubsub subscriptions with their         *)
(* message queues, the handleSubscription tasks, the listener goroutines   *)
(* of watchGroup.add and the client goroutines calling the public          *)
(* operations.  Each action is one atomic step of the code: a step ends    *)
(* where the goroutine can block (a lock, a channel, sub.Next) or where    *)
(* another goroutine can observe an intermediate state.                    *)
(***************************************************************************)
EXTENDS Integers, Sequences, FiniteSets, TLC

\* ------------------------------------------------------------------ bounds
MaxVal == 2         \* record values are 1..MaxVal
MaxInbox == 2       \* capacity of a subscription's message channel
MaxCalls == 4       \* calls of public operations in one scenario
MaxRace == 3        \* first-time callers racing in one scenario
MaxDeliver == 2     \* messages delivered by remote peers
MaxExpire == 1      \* records the validator starts to reject
MaxCtxCancel == 1   \* listener scopes their callers cancel
MaxRead == 2        \* receives the callers of SearchValue perform

\* Every call of a public operation runs in a goroutine of its own; the
\* goroutines are numbered in the order their calls start.
Procs == 1..MaxCalls
Values == 1..MaxVal
MaxSubs == MaxCalls
Subs == 1..MaxSubs
Groups == 1..MaxCalls
Listeners == 1..MaxCalls

\* A scenario is what the environment of the store does: the public
\* operations called, in the order the calls start (they overlap freely),
\* the records remote peers deliver, in order, and how many records expire,
\* listener scopes are cancelled and receives the callers of SearchValue
\* perform.  Faults are the failures the collaborators of the store may
\* show, each once: none unless a scenario is given some.
Public == {"Put", "Subscribe", "Get", "Search", "Cancel", "GetSubs"}

Scenario(calls, deliver, expire, ctxcancel, rcv) ==
  [Calls |-> calls, Deliver |-> deliver, Expire |-> expire,
   CtxCancel |-> ctxcancel, Read |-> rcv, Faults |-> {}]

FaultScenario(calls, deliver, faults) ==
  [Scenario(calls, deliver, 0, 0, 0) EXCEPT !.Faults = faults]

\* ------------------------------------------------------------------- state
VARIABLES
  subsPresent,  \* key \in p.subs (the "ok" of a map read)
  subsVal,      \* p.subs[key]: 0 is the nil subscription, else a subscription
  mx,           \* p.mx: 0 is free, else the client goroutine holding it
  watchLk,      \* p.watchLk write holder: 0 is free (read locks are momentary)
  watching,     \* p.watching[key]: 0 is absent, else a watch group
  cache,        \* p.ds entry of the key: 0 is no entry, else the value
  invalid,      \* the values p.Validator.Validate rejects now
  validatorReg, \* the topic validator of the key is registered
  nsub,         \* subscriptions created by p.ps.Subscribe
  inbox,        \* per subscription: messages waiting for sub.Next
  cancelled,    \* per subscription: sub.Cancel() was called
  hpc,          \* per subscription: position of its handleSubscription task
  hmsg,         \* per task: msg.GetData() of the message being processed
  hold,         \* per task: the cache entry isBetter compared the message with
  hwg,          \* per task: sg of notifyWatchers
  todo,         \* per task: listeners notifyWatchers has still to visit
  subLoop,      \* per subscription: a re-announce loop bound to its derived ctx
  rootLoops,    \* re-announce loops bound to p.ctx
  ngrp,         \* watch groups created
  closing,      \* per group: wg.closing is closed
  lk,           \* per group: wg.lk write holder, 0 is free
  readers,      \* per group: tasks holding wg.lk for read
  listeners,    \* per group: keys of wg.listeners
  nlis,         \* out channels created by SearchValue
  lgrp,         \* per listener: its watch group
  buf,          \* per listener: content of outCh (capacity 1)
  closed,       \* per listener: outCh is closed
  lctx,         \* per listener: its ctx is done
  lpc,          \* per listener: position of the goroutine of watchGroup.add
  race,         \* wg.listeners was written while notifyWatchers iterated it
  pc,           \* per client goroutine: position
  op,           \* per client goroutine: the operation it runs or ran last
  pval,         \* per client goroutine: the value of PutValue
  psub,         \* per client goroutine: sub of Subscribe
  pwg,          \* per client goroutine: wg of SearchValue
  plis,         \* per client goroutine: out of SearchValue
  ret,          \* per client goroutine: what its last operation returned
  left,         \* what is left of the scenario
  log,          \* the messages isBetter decided on in handleSubscription, in order
  reads,        \* per listener: what its caller has read from the channel
  seed          \* per listener: the value SearchValue put in the channel, or 0

storeVars == <<subsPresent, subsVal, mx, watchLk, watching, cache, invalid, validatorReg>>
subVars == <<nsub, inbox, cancelled, hpc, hmsg, hold, hwg, todo, subLoop, rootLoops>>
grpVars == <<ngrp, closing, lk, readers, listeners>>
lisVars == <<nlis, lgrp, buf, closed, lctx, lpc, race>>
procVars == <<pc, op, pval, psub, pwg, plis, ret>>
histVars == <<left, log, reads, seed>>
vars == <<storeVars, subVars, grpVars, lisVars, procVars, histVars>>

\* ------------------------------------------------------- the pure functions
\* p.Validator.Validate(key, val) == nil
Validate(val) == val \notin invalid

\* p.Validator.Select(key, [a, b]): the index of the preferred record.  The
\* validator is a collaborator; this one prefers the larger record.
Select(a, b) == IF a >= b THEN 0 ELSE 1

getLocalMissing == [val |-> 0, err |-> "NotFound"]
getLocalNoValidate ==
  IF cache = 0 THEN [val |-> 0, err |-> "NotFound"]
  ELSE [val |-> cache, err |-> "nil"]
\* getLocal: the entry, or NotFound, or the validator's error.
getLocal ==
  IF cache = 0 THEN [val |-> 0, err |-> "NotFound"]
  ELSE IF ~Validate(cache) THEN [val |-> 0, err |-> "Invalid"]
  ELSE [val |-> cache, err |-> "nil"]

\* The branch isBetter takes for val.
isBetterPath(val) ==
  IF ~Validate(val) THEN "invalid"
  ELSE IF getLocal.err # "nil" THEN "noold"
  ELSE IF getLocal.val = val THEN "same"
  ELSE "select"

isBetterValidOnly(val) == Validate(val)
isBetterStrict(val) ==
  LET path == isBetterPath(val)
  IN  CASE path = "invalid" -> FALSE
        [] path = "noold" -> TRUE
        [] path = "same" -> FALSE
        [] path = "select" -> Select(val, getLocal.val) = 0
isBetter(val) ==
  LET path == isBetterPath(val)
  IN  CASE path = "invalid" -> FALSE
        [] path = "noold" -> TRUE
        [] path = "same" -> TRUE
        [] path = "select" -> Select(val, getLocal.val) = 0

\* A send on a channel of capacity 1 is ready when the channel is empty.
CanSendAlways(l) == TRUE
CanSend(l) == buf[l] = <<>>
ChanSend(b, v) == Append(b, v)

\* The subscriptions the transport still delivers to.
ActiveSubs == {s \in 1..nsub : ~cancelled[s]}

\* The transport hands a message to every live subscription of the topic
\* whose channel is not full, after the topic validator accepted it.
Enqueue(v) ==
  [s \in Subs |->
     IF s \in ActiveSubs /\ Len(inbox[s]) < MaxInbox
     THEN Append(inbox[s], v) ELSE inbox[s]]

\* The scenario allows an operation of this kind now; Count takes it off
\* what is left of the scenario.
Budget(kind) ==
  IF kind \in Public
  THEN left.Calls # <<>> /\ Head(left.Calls) = kind
  ELSE IF kind = "Deliver" THEN left.Deliver # <<>>
  ELSE left[kind] > 0
Count(kind) ==
  left' = IF kind \in Public
          THEN [left EXCEPT !.Calls = Tail(@)]
          ELSE IF kind = "Deliver" THEN [left EXCEPT !.Deliver = Tail(@)]
          ELSE [left EXCEPT ![kind] = @ - 1]

\* Goroutine p may start its call: the calls before it have started.
Fresh(p) == pc[p] = "idle" /\ \A q \in Procs : q < p => pc[q] # "idle"

Result(v, e, pre) == [val |-> v, err |-> e, pre |-> pre]

\* Goroutine p unlocks p.mx while it is not locked: the runtime ends the
\* process ("fatal error: sync: unlock of unlocked mutex", which no recover
\* catches).  Every goroutine is gone and nothing happens any more.
Die(p) ==
  /\ pc' = [q \in Procs |-> "dead"]
  /\ ret' = [ret EXCEPT ![p] = Result(0, "fatal", 0)]
  /\ hpc' = [s \in Subs |-> IF hpc[s] \in {"idle", "done"} THEN hpc[s] ELSE "dead"]
  /\ lpc' = [l \in Listeners |-> IF lpc[l] = "none" THEN "none" ELSE "dead"]
  /\ left' = Scenario(<<>>, <<>>, 0, 0, 0)

\* -------------------------------------------------------------------- Init
InitWith(limit) ==
  /\ left = limit
  /\ subsPresent = FALSE /\ subsVal = 0 /\ mx = 0 /\ watchLk = 0
  /\ watching = 0 /\ cache = 0 /\ invalid = {} /\ validatorReg = FALSE
  /\ nsub = 0
  /\ inbox = [s \in Subs |-> <<>>]
  /\ cancelled = [s \in Subs |-> FALSE]
  /\ hpc = [s \in Subs |-> "idle"]
  /\ hmsg = [s \in Subs |-> 0]
  /\ hold = [s \in Subs |-> 0]
  /\ hwg = [s \in Subs |-> 0]
  /\ todo = [s \in Subs |-> {}]
  /\ subLoop = [s \in Subs |-> FALSE]
  /\ rootLoops = 0
  /\ ngrp = 0
  /\ closing = [g \in Groups |-> FALSE]
  /\ lk = [g \in Groups |-> 0]
  /\ readers = [g \in Groups |-> {}]
  /\ listeners = [g \in Groups |-> {}]
  /\ nlis = 0
  /\ lgrp = [l \in Listeners |-> 0]
  /\ buf = [l \in Listeners |-> <<>>]
  /\ closed = [l \in Listeners |-> FALSE]
  /\ lctx = [l \in Listeners |-> FALSE]
  /\ lpc = [l \in Listeners |-> "none"]
  /\ race = FALSE
  /\ pc = [p \in Procs |-> "idle"]
  /\ op = [p \in Procs |-> "none"]
  /\ pval = [p \in Procs |-> 0]
  /\ psub = [p \in Procs |-> 0]
  /\ pwg = [p \in Procs |-> 0]
  /\ plis = [p \in Procs |-> 0]
  /\ ret = [p \in Procs |-> Result(0, "none", 0)]
  /\ log = <<>>
  /\ reads = [l \in Listeners |-> <<>>]
  /\ seed = [l \in Listeners |-> 0]


\* ------------------------------------------------------------ the transport
\* p.ps.Publish and a remote peer's message take the same way in: the topic
\* validator registered by Subscribe (isBetter) gates the message, then every
\* live subscription gets it.
Publish(v) ==
  IF validatorReg /\ ~isBetter(v) THEN inbox ELSE Enqueue(v)

\* A remote peer's message for the key arrives.
Deliver(v) ==
  /\ Budget("Deliver") /\ v = Head(left.Deliver)
  /\ ActiveSubs # {}
  /\ Publish(v) # inbox
  /\ inbox' = Publish(v)
  /\ Count("Deliver")
  /\ UNCHANGED <<storeVars, grpVars, lisVars, procVars, log, reads, seed>>
  /\ UNCHANGED <<nsub, cancelled, hpc, hmsg, hold, hwg, todo, subLoop, rootLoops>>

\* A record expires: the validator rejects it from now on.
Expire(v) ==
  /\ Budget("Expire")
  /\ v \notin invalid
  /\ invalid' = invalid \cup {v}
  /\ Count("Expire")
  /\ UNCHANGED <<subsPresent, subsVal, mx, watchLk, watching, cache, validatorReg>>
  /\ UNCHANGED <<subVars, grpVars, lisVars, procVars, log, reads, seed>>

\* ----------------------------------------------------------------- PutValue
\* Lines 73-83: under p.mx, mark the key bootstrapped; bootstrapPubsub(p.ctx)
\* starts a re-announce loop bound to p.ctx.
PutBoot(p, v) ==
  /\ Fresh(p) /\ Budget("Put") /\ mx = 0
  /\ Count("Put")
  /\ IF ~subsPresent
     THEN /\ subsPresent' = TRUE
          /\ subsVal' = 0
          /\ rootLoops' = rootLoops + 1
     ELSE UNCHANGED <<subsPresent, subsVal, rootLoops>>
  /\ pc' = [pc EXCEPT ![p] = "PutPublish"]
  /\ op' = [op EXCEPT ![p] = "Put"]
  /\ pval' = [pval EXCEPT ![p] = v]
  /\ UNCHANGED <<mx, watchLk, watching, cache, invalid, validatorReg>>
  /\ UNCHANGED <<nsub, inbox, cancelled, hpc, hmsg, hold, hwg, todo, subLoop>>
  /\ UNCHANGED <<grpVars, lisVars, psub, pwg, plis, ret, log, reads, seed>>

\* Line 86: p.ps.Publish(key, value).
PutPublish(p) ==
  /\ pc[p] = "PutPublish"
  /\ inbox' = Publish(pval[p])
  /\ pc' = [pc EXCEPT ![p] = "done"]
  /\ pval' = [pval EXCEPT ![p] = 0]
  /\ ret' = [ret EXCEPT ![p] = Result(0, "nil", 0)]
  /\ UNCHANGED <<storeVars, grpVars, lisVars, histVars, op, psub, pwg, plis>>
  /\ UNCHANGED <<nsub, cancelled, hpc, hmsg, hold, hwg, todo, subLoop, rootLoops>>

\* ---------------------------------------------------------------- Subscribe
\* Where a goroutine goes when the Subscribe it called returned nil.
AfterSubscribe(o) ==
  CASE o = "Subscribe" -> "done"
    [] o = "Get" -> "GetLocal"
    [] o = "Search" -> "SearchWatch"

SubscribeReturn(p, o) ==
  /\ pc' = [pc EXCEPT ![p] = AfterSubscribe(o)]
  /\ ret' = [ret EXCEPT ![p] =
               IF o = "Subscribe" THEN Result(0, "nil", 0) ELSE Result(0, "none", 0)]

\* Line 115: sub != nil.
HasSub == subsPresent /\ subsVal # 0

\* Line 135: existingSub != nil, another caller's subscription is installed.
YieldNever == FALSE
Yield == subsPresent /\ subsVal # 0

\* Lines 110-117, entered from Subscribe, GetValue or SearchValue: read
\* p.subs[key] under p.mx and return when a subscription is installed.
SubCheck(p, o) ==
  /\ Fresh(p) /\ Budget(o) /\ mx = 0
  /\ Count(o)
  /\ op' = [op EXCEPT ![p] = o]
  /\ IF HasSub
     THEN SubscribeReturn(p, o)
     ELSE /\ pc' = [pc EXCEPT ![p] = "SubSubscribe"]
          /\ ret' = [ret EXCEPT ![p] = Result(0, "none", 0)]
  /\ UNCHANGED <<storeVars, subVars, grpVars, lisVars, pval, psub, pwg, plis>>
  /\ UNCHANGED <<log, reads, seed>>

\* Lines 123-127: register the topic validator, then p.ps.Subscribe(key).
SubSubscribe(p) ==
  /\ pc[p] = "SubSubscribe"
  /\ validatorReg' = TRUE
  /\ nsub' = nsub + 1
  /\ psub' = [psub EXCEPT ![p] = nsub + 1]
  /\ pc' = [pc EXCEPT ![p] = "SubInstall"]
  /\ UNCHANGED <<subsPresent, subsVal, mx, watchLk, watching, cache, invalid>>
  /\ UNCHANGED <<inbox, cancelled, hpc, hmsg, hold, hwg, todo, subLoop, rootLoops>>
  /\ UNCHANGED <<grpVars, lisVars, histVars, op, pval, pwg, plis, ret>>

\* Lines 127-131: p.ps.Subscribe(key) fails.  Subscribe calls p.mx.Unlock()
\* although it released p.mx at line 113: with p.mx free the process dies;
\* with p.mx held by a Cancel under way, that Cancel loses the lock.  Then
\* the error goes to the caller (through GetValue and SearchValue too).
SubFail(p) ==
  /\ pc[p] = "SubSubscribe" /\ "Subscribe" \in left.Faults
  /\ validatorReg' = TRUE
  /\ IF mx = 0
     THEN Die(p) /\ UNCHANGED mx
     ELSE /\ mx' = 0
          /\ pc' = [pc EXCEPT ![p] = "done"]
          /\ ret' = [ret EXCEPT ![p] = Result(0, "SubErr", 0)]
          /\ left' = [left EXCEPT !.Faults = @ \ {"Subscribe"}]
          /\ UNCHANGED <<hpc, lpc>>
  /\ UNCHANGED <<subsPresent, subsVal, watchLk, watching, cache, invalid>>
  /\ UNCHANGED <<nsub, inbox, cancelled, hmsg, hold, hwg, todo, subLoop, rootLoops>>
  /\ UNCHANGED <<grpVars, nlis, lgrp, buf, closed, lctx, race>>
  /\ UNCHANGED <<op, pval, psub, pwg, plis, log, reads, seed>>

\* Lines 133-152: under p.mx, yield to an installed subscription (cancel the
\* own one), else install the own one, start handleSubscription and, when
\* the key had no entry, bootstrapPubsub with the derived ctx.
SubInstall(p) ==
  /\ pc[p] = "SubInstall" /\ mx = 0
  /\ IF Yield
     THEN /\ cancelled' = [cancelled EXCEPT ![psub[p]] = TRUE]
          /\ inbox' = [inbox EXCEPT ![psub[p]] = <<>>]
          /\ UNCHANGED <<subsPresent, subsVal, hpc, subLoop>>
     ELSE /\ subsPresent' = TRUE
          /\ subsVal' = psub[p]
          /\ hpc' = [hpc EXCEPT ![psub[p]] = "next"]
          /\ subLoop' = [subLoop EXCEPT ![psub[p]] = ~subsPresent]
          /\ UNCHANGED <<cancelled, inbox>>
  /\ SubscribeReturn(p, op[p])
  /\ psub' = [psub EXCEPT ![p] = 0]
  /\ UNCHANGED <<mx, watchLk, watching, cache, invalid, validatorReg>>
  /\ UNCHANGED <<nsub, hmsg, hold, hwg, todo, rootLoops>>
  /\ UNCHANGED <<grpVars, lisVars, histVars, op, pval, pwg, plis>>

\* ----------------------------------------------------------------- GetValue
\* Line 177: return p.getLocal(key).
GetLocalStep(p) ==
  /\ pc[p] = "GetLocal"
  /\ ret' = [ret EXCEPT ![p] = Result(getLocal.val, getLocal.err, 0)]
  /\ pc' = [pc EXCEPT ![p] = "done"]
  /\ UNCHANGED <<storeVars, subVars, grpVars, lisVars, histVars>>
  /\ UNCHANGED <<op, pval, psub, pwg, plis>>

\* --------------------------------------------------------- GetSubscriptions
\* Lines 213-223: the keys of p.subs, read under p.mx (val is 1 when the key
\* is among them).
GetSubscriptions(p) ==
  /\ Fresh(p) /\ Budget("GetSubs") /\ mx = 0
  /\ Count("GetSubs")
  /\ op' = [op EXCEPT ![p] = "GetSubs"]
  /\ ret' = [ret EXCEPT ![p] = Result(IF subsPresent THEN 1 ELSE 0, "nil", 0)]
  /\ pc' = [pc EXCEPT ![p] = "done"]
  /\ UNCHANGED <<storeVars, subVars, grpVars, lisVars, log, reads, seed>>
  /\ UNCHANGED <<pval, psub, pwg, plis>>

\* -------------------------------------------------------------- SearchValue
\* Lines 185-193: take p.watchLk, find or create the key's watch group.
SearchWatch(p) ==
  /\ pc[p] = "SearchWatch" /\ watchLk = 0
  /\ watchLk' = p
  /\ IF watching = 0
     THEN /\ ngrp' = ngrp + 1
          /\ watching' = ngrp + 1
          /\ pwg' = [pwg EXCEPT ![p] = ngrp + 1]
     ELSE /\ pwg' = [pwg EXCEPT ![p] = watching]
          /\ UNCHANGED <<ngrp, watching>>
  /\ pc' = [pc EXCEPT ![p] = "SearchGroup"]
  /\ UNCHANGED <<subsPresent, subsVal, mx, cache, invalid, validatorReg>>
  /\ UNCHANGED <<subVars, closing, lk, readers, listeners, lisVars, histVars>>
  /\ UNCHANGED <<op, pval, psub, plis, ret>>

\* Lines 195-202: take wg.lk for write (still holding p.watchLk), release
\* p.watchLk, make the out channel and seed it with the local entry.
SearchGroup(p) ==
  /\ pc[p] = "SearchGroup"
  /\ lk[pwg[p]] = 0 /\ readers[pwg[p]] = {}
  /\ lk' = [lk EXCEPT ![pwg[p]] = p]
  /\ watchLk' = 0
  /\ nlis' = nlis + 1
  /\ plis' = [plis EXCEPT ![p] = nlis + 1]
  /\ lgrp' = [lgrp EXCEPT ![nlis + 1] = pwg[p]]
  /\ lpc' = [lpc EXCEPT ![nlis + 1] = "made"]
  /\ buf' = [buf EXCEPT ![nlis + 1] =
               IF getLocal.err = "nil" THEN ChanSend(<<>>, getLocal.val) ELSE <<>>]
  /\ seed' = [seed EXCEPT ![nlis + 1] =
               IF getLocal.err = "nil" THEN getLocal.val ELSE 0]
  /\ pc' = [pc EXCEPT ![p] = "SearchAdd"]
  /\ UNCHANGED <<subsPresent, subsVal, mx, watching, cache, invalid, validatorReg>>
  /\ UNCHANGED <<subVars, ngrp, closing, readers, listeners, closed, lctx, race>>
  /\ UNCHANGED <<op, pval, psub, pwg, ret, left, log, reads>>

\* Lines 204-209: take p.watchLk again (still holding wg.lk), wg.add starts
\* the listener goroutine, release both locks and return the channel.
SearchAdd(p) ==
  /\ pc[p] = "SearchAdd" /\ watchLk = 0
  /\ lpc' = [lpc EXCEPT ![plis[p]] = "start"]
  /\ lk' = [lk EXCEPT ![pwg[p]] = 0]
  /\ ret' = [ret EXCEPT ![p] = Result(plis[p], "nil", 0)]
  /\ pc' = [pc EXCEPT ![p] = "done"]
  /\ pwg' = [pwg EXCEPT ![p] = 0]
  /\ plis' = [plis EXCEPT ![p] = 0]
  /\ UNCHANGED <<storeVars, subVars, histVars, op, pval, psub>>
  /\ UNCHANGED <<ngrp, closing, readers, listeners, nlis, lgrp, buf, closed, lctx, race>>

\* ------------------------------------------------------------------- Cancel
\* What Cancel found in p.subs: 0 no entry, 1 the nil subscription of a key
\* that is only bootstrapped, 2 a subscription.
Found == IF ~subsPresent THEN 0 ELSE IF subsVal = 0 THEN 1 ELSE 2

\* Cancel's result: the ok of the map read.
CancelResult(pre) == IF pre # 0 THEN 1 ELSE 0

\* Lines 228-235: under p.mx, sub.Cancel() and delete the entry when the key
\* has one.  sub.Cancel() on the nil subscription of a bootstrapped key
\* dereferences nil: Cancel panics, the deferred Unlock releases p.mx.
CancelSub(p) ==
  /\ Fresh(p) /\ Budget("Cancel") /\ mx = 0
  /\ Count("Cancel")
  /\ op' = [op EXCEPT ![p] = "Cancel"]
  /\ IF Found = 1
     THEN /\ ret' = [ret EXCEPT ![p] = Result(0, "panic", 1)]
          /\ pc' = [pc EXCEPT ![p] = "done"]
          /\ UNCHANGED <<mx, subsPresent, subsVal, cancelled>>
     ELSE /\ ret' = [ret EXCEPT ![p] = Result(0, "none", Found)]
          /\ pc' = [pc EXCEPT ![p] = "CancelWatch"]
          /\ mx' = p
          /\ subsPresent' = FALSE
          /\ subsVal' = 0
          /\ cancelled' = IF Found = 2
                          THEN [cancelled EXCEPT ![subsVal] = TRUE]
                          ELSE cancelled
  /\ UNCHANGED <<watchLk, watching, cache, invalid, validatorReg>>
  /\ UNCHANGED <<nsub, inbox, hpc, hmsg, hold, hwg, todo, subLoop, rootLoops>>
  /\ UNCHANGED <<grpVars, lisVars, pval, psub, pwg, plis, log, reads, seed>>

\* Lines 237-244: take p.watchLk (still holding p.mx), close wg.closing and
\* delete the watch group, release both locks, return ok.  The deferred
\* p.mx.Unlock() ends the process when a failed Subscribe has unlocked p.mx
\* in the meantime.
CancelWatch(p) ==
  /\ pc[p] = "CancelWatch" /\ watchLk = 0
  /\ IF watching # 0
     THEN /\ closing' = [closing EXCEPT ![watching] = TRUE]
          /\ watching' = 0
     ELSE UNCHANGED <<closing, watching>>
  /\ IF mx = 0
     THEN Die(p) /\ UNCHANGED mx
     ELSE /\ mx' = 0
          /\ ret' = [ret EXCEPT ![p] =
                       Result(CancelResult(ret[p].pre), "nil", ret[p].pre)]
          /\ pc' = [pc EXCEPT ![p] = "done"]
          /\ UNCHANGED <<hpc, lpc, left>>
  /\ UNCHANGED <<subsPresent, subsVal, watchLk, cache, invalid, validatorReg>>
  /\ UNCHANGED <<nsub, inbox, cancelled, hmsg, hold, hwg, todo, subLoop, rootLoops>>
  /\ UNCHANGED <<ngrp, lk, readers, listeners>>
  /\ UNCHANGED <<nlis, lgrp, buf, closed, lctx, race>>
  /\ UNCHANGED <<op, pval, psub, pwg, plis, log, reads, seed>>

\* ------------------------------------------------------- handleSubscription
\* What the log keeps of one message: the task, the value, the cache entry
\* isBetter compared it with, the branch isBetter took and its answer.
Entry(s, v, old, path, acc) ==
  [s |-> s, v |-> v, old |-> old, path |-> path, acc |-> acc]

\* Lines 252 and 259: sub.Next returns the next message, isBetter decides on
\* it; a rejected message is dropped and the loop goes on.
HNext(s) ==
  /\ hpc[s] = "next" /\ inbox[s] # <<>>
  /\ inbox' = [inbox EXCEPT ![s] = Tail(@)]
  /\ LET v == Head(inbox[s])
     IN  /\ log' = Append(log, Entry(s, v, cache, isBetterPath(v), isBetter(v)))
         /\ IF isBetter(v)
            THEN /\ hpc' = [hpc EXCEPT ![s] = "put"]
                 /\ hmsg' = [hmsg EXCEPT ![s] = v]
                 /\ hold' = [hold EXCEPT ![s] = cache]
            ELSE UNCHANGED <<hpc, hmsg, hold>>
  /\ UNCHANGED <<storeVars, grpVars, lisVars, procVars, left, reads, seed>>
  /\ UNCHANGED <<nsub, cancelled, hwg, todo, subLoop, rootLoops>>

\* Lines 252-258 with the deferred calls: sub.Next fails once the
\* subscription is cancelled and drained; the task ends and cancels the
\* derived ctx.
HExit(s) ==
  /\ hpc[s] = "next" /\ inbox[s] = <<>> /\ cancelled[s]
  /\ hpc' = [hpc EXCEPT ![s] = "done"]
  /\ UNCHANGED <<storeVars, grpVars, lisVars, procVars, histVars>>
  /\ UNCHANGED <<nsub, inbox, cancelled, hmsg, hold, hwg, todo, subLoop, rootLoops>>

\* Lines 252-258 with the deferred calls: sub.Next fails with a transport
\* error; the task logs it and ends, cancelling the derived ctx and the
\* subscription.  The entry p.subs[key] stays as it is.
HFail(s) ==
  /\ hpc[s] = "next" /\ ~cancelled[s] /\ "Next" \in left.Faults
  /\ hpc' = [hpc EXCEPT ![s] = "done"]
  /\ cancelled' = [cancelled EXCEPT ![s] = TRUE]
  /\ left' = [left EXCEPT !.Faults = @ \ {"Next"}]
  /\ UNCHANGED <<storeVars, grpVars, lisVars, procVars, log, reads, seed>>
  /\ UNCHANGED <<nsub, inbox, hmsg, hold, hwg, todo, subLoop, rootLoops>>

\* Lines 260-264 when p.ds.Put returns an error: the error is logged and
\* the task goes on to notifyWatchers with the value.  (p.ds is a
\* ds.Datastore; the map datastore of line 59 does not fail, another one in
\* its place may.)
HPutFail(s) ==
  /\ hpc[s] = "put" /\ "Put" \in left.Faults
  /\ hpc' = [hpc EXCEPT ![s] = "lookup"]
  /\ left' = [left EXCEPT !.Faults = @ \ {"Put"}]
  /\ UNCHANGED <<storeVars, grpVars, lisVars, procVars, log, reads, seed>>
  /\ UNCHANGED <<nsub, inbox, cancelled, hmsg, hold, hwg, todo, subLoop, rootLoops>>

\* Line 260: p.ds.Put of the accepted value (the map datastore of line 59
\* never fails).
HPut(s) ==
  /\ hpc[s] = "put"
  /\ cache' = hmsg[s]
  /\ hpc' = [hpc EXCEPT ![s] = "lookup"]
  /\ UNCHANGED <<subsPresent, subsVal, mx, watchLk, watching, invalid, validatorReg>>
  /\ UNCHANGED <<nsub, inbox, cancelled, hmsg, hold, hwg, todo, subLoop, rootLoops>>
  /\ UNCHANGED <<grpVars, lisVars, procVars, histVars>>

\* Lines 270-275 of notifyWatchers: read p.watching[key] under the read lock.
HLookup(s) ==
  /\ hpc[s] = "lookup" /\ watchLk = 0
  /\ IF watching = 0
     THEN /\ hpc' = [hpc EXCEPT ![s] = "next"]
          /\ hmsg' = [hmsg EXCEPT ![s] = 0]
          /\ hold' = [hold EXCEPT ![s] = 0]
          /\ UNCHANGED hwg
     ELSE /\ hpc' = [hpc EXCEPT ![s] = "rlock"]
          /\ hwg' = [hwg EXCEPT ![s] = watching]
          /\ UNCHANGED <<hmsg, hold>>
  /\ UNCHANGED <<storeVars, grpVars, lisVars, procVars, histVars>>
  /\ UNCHANGED <<nsub, inbox, cancelled, todo, subLoop, rootLoops>>

\* Line 277-278: sg.lk.RLock(), then the range over sg.listeners starts.  A
\* group without listeners is left at once.
HRLock(s) ==
  /\ hpc[s] = "rlock" /\ lk[hwg[s]] = 0
  /\ IF listeners[hwg[s]] = {}
     THEN /\ hpc' = [hpc EXCEPT ![s] = "next"]
          /\ hmsg' = [hmsg EXCEPT ![s] = 0]
          /\ hold' = [hold EXCEPT ![s] = 0]
          /\ hwg' = [hwg EXCEPT ![s] = 0]
          /\ UNCHANGED <<todo, readers>>
     ELSE /\ hpc' = [hpc EXCEPT ![s] = "iter"]
          /\ todo' = [todo EXCEPT ![s] = listeners[hwg[s]]]
          /\ readers' = [readers EXCEPT ![hwg[s]] = @ \cup {s}]
          /\ UNCHANGED <<hmsg, hold, hwg>>
  /\ UNCHANGED <<storeVars, lisVars, procVars, histVars>>
  /\ UNCHANGED <<nsub, inbox, cancelled, subLoop, rootLoops>>
  /\ UNCHANGED <<ngrp, closing, lk, listeners>>

\* Lines 279-286: the select of one iteration takes a ready case: the send
\* to the watcher, sg.closing, or the watcher's ctx.  With no case ready the
\* task waits.  After the last watcher, sg.lk.RUnlock().
HSend(s, l) ==
  /\ hpc[s] = "iter" /\ l \in todo[s]
  /\ \/ /\ CanSend(l)
        /\ buf' = [buf EXCEPT ![l] = ChanSend(@, hmsg[s])]
     \/ /\ closing[hwg[s]]
        /\ UNCHANGED buf
     \/ /\ lctx[l]
        /\ UNCHANGED buf
  /\ todo' = [todo EXCEPT ![s] = @ \ {l}]
  /\ IF todo[s] = {l}
     THEN /\ hpc' = [hpc EXCEPT ![s] = "next"]
          /\ hmsg' = [hmsg EXCEPT ![s] = 0]
          /\ hold' = [hold EXCEPT ![s] = 0]
          /\ hwg' = [hwg EXCEPT ![s] = 0]
          /\ readers' = [readers EXCEPT ![hwg[s]] = @ \ {s}]
     ELSE UNCHANGED <<hpc, hmsg, hold, hwg, readers>>
  /\ UNCHANGED <<storeVars, procVars, histVars>>
  /\ UNCHANGED <<nsub, inbox, cancelled, subLoop, rootLoops>>
  /\ UNCHANGED <<ngrp, closing, lk, listeners>>
  /\ UNCHANGED <<nlis, lgrp, closed, lctx, lpc, race>>

\* ------------------------------------------- the goroutine of watchGroup.add
\* The tasks inside the range over the listeners of group g.
Iterating(g) == {s \in Subs : hpc[s] = "iter" /\ hwg[s] = g}

\* Lines 350-351: wg.listeners[outCh] = ctx, written by the new goroutine
\* without wg.lk.  A range that is under way may or may not produce the new
\* entry.
LRegister(l) ==
  /\ lpc[l] = "start"
  /\ listeners' = [listeners EXCEPT ![lgrp[l]] = @ \cup {l}]
  /\ lpc' = [lpc EXCEPT ![l] = "loop"]
  /\ race' = (race \/ Iterating(lgrp[l]) # {})
  /\ \E seen \in SUBSET Iterating(lgrp[l]) :
        todo' = [s \in Subs |-> IF s \in seen THEN todo[s] \cup {l} ELSE todo[s]]
  /\ UNCHANGED <<storeVars, procVars, histVars>>
  /\ UNCHANGED <<nsub, inbox, cancelled, hpc, hmsg, hold, hwg, subLoop, rootLoops>>
  /\ UNCHANGED <<ngrp, closing, lk, readers>>
  /\ UNCHANGED <<nlis, lgrp, buf, closed, lctx>>

\* Lines 364-381 and 354: nothing ever sends on proxy, so the select waits
\* for wg.closing or ctx.Done(); then the deferred function cancels ctx.
LWake(l) ==
  /\ lpc[l] = "loop"
  /\ closing[lgrp[l]] \/ lctx[l]
  /\ lctx' = [lctx EXCEPT ![l] = TRUE]
  /\ lpc' = [lpc EXCEPT ![l] = "remove"]
  /\ UNCHANGED <<storeVars, subVars, grpVars, procVars, histVars>>
  /\ UNCHANGED <<nlis, lgrp, buf, closed, race>>

\* Lines 356-361: under wg.lk, delete the listener; then close(outCh).
LRemove(l) ==
  /\ lpc[l] = "remove"
  /\ lk[lgrp[l]] = 0 /\ readers[lgrp[l]] = {}
  /\ listeners' = [listeners EXCEPT ![lgrp[l]] = @ \ {l}]
  /\ closed' = [closed EXCEPT ![l] = TRUE]
  /\ lpc' = [lpc EXCEPT ![l] = "done"]
  /\ UNCHANGED <<storeVars, subVars, procVars, histVars>>
  /\ UNCHANGED <<ngrp, closing, lk, readers>>
  /\ UNCHANGED <<nlis, lgrp, buf, lctx, race>>

\* ------------------------------------------- the caller of SearchValue
Returned(l) == lpc[l] \in {"start", "loop", "remove", "done"}

\* The caller has seen the channel closed.
SawClosed(l) == reads[l] # <<>> /\ reads[l][Len(reads[l])] = 0

\* The caller receives from the channel: the buffered value, or, from an
\* empty closed channel, the closed mark (0).
Read(l) ==
  /\ Budget("Read") /\ Returned(l)
  /\ Count("Read")
  /\ \/ /\ buf[l] # <<>>
        /\ reads' = [reads EXCEPT ![l] = Append(@, Head(buf[l]))]
        /\ buf' = [buf EXCEPT ![l] = <<>>]
     \/ /\ buf[l] = <<>> /\ closed[l]
        /\ ~SawClosed(l)
        /\ reads' = [reads EXCEPT ![l] = Append(@, 0)]
        /\ UNCHANGED buf
  /\ UNCHANGED <<storeVars, subVars, grpVars, procVars, log, seed>>
  /\ UNCHANGED <<nlis, lgrp, closed, lctx, lpc, race>>

\* The caller cancels the ctx it gave SearchValue.
CtxCancel(l) ==
  /\ Budget("CtxCancel")
  /\ lpc[l] \in {"start", "loop"} /\ ~lctx[l]
  /\ lctx' = [lctx EXCEPT ![l] = TRUE]
  /\ Count("CtxCancel")
  /\ UNCHANGED <<storeVars, subVars, grpVars, procVars, log, reads, seed>>
  /\ UNCHANGED <<nlis, lgrp, buf, closed, lpc, race>>

\* --------------------------------------------------------------------- Next
\* The scenarios of the model.
\* First-time subscribers racing, directly and through GetValue and
\* SearchValue, with PutValue among them.
RaceScenarios ==
  { Scenario(c, <<>>, 0, 0, 0) :
      c \in [1..MaxRace -> {"Put", "Subscribe", "Get", "Search"}] }

\* The records remote peers deliver in one scenario.
Deliveries == [1..MaxDeliver -> Values]

\* One subscription receiving records, some of which expire.
ValueScenarios ==
  { Scenario(<<"Subscribe", "Get">>, d, MaxExpire, 0, 0) : d \in Deliveries }

\* Listeners of one key, reading or not, while records arrive.
WatchScenarios ==
  { Scenario(<<"Search", "Search">>, <<1, 2>>, 0, MaxCtxCancel, MaxRead) }

\* Cancel after and among the other operations.
CancelScenarios ==
  { Scenario(<<"Put", "Cancel", "GetSubs">>, <<>>, 0, 0, 0),
    Scenario(<<"Subscribe", "Cancel", "GetSubs">>, <<>>, 0, 0, 0),
    Scenario(<<"Cancel", "Put", "GetSubs">>, <<>>, 0, 0, 0),
    Scenario(<<"Put", "Subscribe", "Cancel", "Put">>, <<>>, 0, 0, 0),
    Scenario(<<"Subscribe", "Cancel", "Search">>, <<1, 2>>, 0, 0, MaxRead),
    Scenario(<<"Search", "Cancel", "GetSubs">>, <<1>>, 0, 0, MaxRead),
    Scenario(<<"Search", "Search", "Search", "Cancel">>, <<>>, 0, 0, 0) }

Scenarios ==
  RaceScenarios \cup ValueScenarios \cup WatchScenarios \cup CancelScenarios

Init == \E limit \in Scenarios : InitWith(limit)

Next ==
  \/ \E p \in Procs, v \in Values : PutBoot(p, v)
  \/ \E p \in Procs : PutPublish(p)
  \/ \E p \in Procs, o \in {"Subscribe", "Get", "Search"} : SubCheck(p, o)
  \/ \E p \in Procs : SubSubscribe(p)
  \/ \E p \in Procs : SubInstall(p)
  \/ \E p \in Procs : GetLocalStep(p)
  \/ \E p \in Procs : GetSubscriptions(p)
  \/ \E p \in Procs : SearchWatch(p)
  \/ \E p \in Procs : SearchGroup(p)
  \/ \E p \in Procs : SearchAdd(p)
  \/ \E p \in Procs : CancelSub(p)
  \/ \E p \in Procs : CancelWatch(p)
  \/ \E v \in Values : Deliver(v)
  \/ \E v \in Values : Expire(v)
  \/ \E s \in Subs : HNext(s)
  \/ \E s \in Subs : HExit(s)
  \/ \E s \in Subs : HPut(s)
  \/ \E s \in Subs : HLookup(s)
  \/ \E s \in Subs : HRLock(s)
  \/ \E s \in Subs, l \in Listeners : HSend(s, l)
  \/ \E l \in Listeners : LRegister(l)
  \/ \E l \in Listeners : LWake(l)
  \/ \E l \in Listeners : LRemove(l)
  \/ \E l \in Listeners : Read(l)
  \/ \E l \in Listeners : CtxCancel(l)

Spec == Init /\ [][Next]_vars

\* The store with collaborators that fail: the transport's Subscribe, the
\* subscription's Next, the datastore's Put.
FaultScenarios ==
  { FaultScenario(<<"Get", "Cancel">>, <<>>, {"Subscribe"}),
    FaultScenario(<<"Subscribe", "Get">>, <<>>, {"Subscribe"}),
    FaultScenario(<<"Search", "Subscribe">>, <<1, 2>>, {"Next"}),
    FaultScenario(<<"Search", "Get">>, <<1, 2>>, {"Put"}) }

InitFault == \E limit \in Scenarios \cup FaultScenarios : InitWith(limit)

NextFault ==
  \/ Next
  \/ \E p \in Procs : SubFail(p)
  \/ \E s \in Subs : HFail(s)
  \/ \E s \in Subs : HPutFail(s)

SpecFault == InitFault /\ [][NextFault]_vars

\* ================================================================ the claims
Started == {s \in Subs : hpc[s] # "idle"}
Running == {s \in Subs : hpc[s] \notin {"idle", "done"}}
OneTask == Cardinality(Started) <= 1
NoCancel == \A p \in Procs : op[p] # "Cancel"
Pending == \E s \in Subs : hpc[s] = "put"
Accepted == SelectSeq(log, LAMBDA e : e.acc)

\* The call of p went through Subscribe and Subscribe has returned.
PastSubscribe(p) ==
  /\ op[p] \in {"Subscribe", "Get", "Search"}
  /\ pc[p] \notin {"idle", "SubSubscribe", "SubInstall"}

\* The task is inside notifyWatchers and no case of its select is ready: it
\* waits until a listener reads or leaves.
NoCaseReady(s, l) == ~CanSend(l) /\ ~closing[hwg[s]] /\ ~lctx[l]
Stalled(s) == hpc[s] = "iter" /\ \A l \in todo[s] : NoCaseReady(s, l)

\* Nothing moves unless a caller acts: no call is under way, every task
\* waits for a message or for a listener, every listener goroutine waits.
Settled ==
  /\ \A p \in Procs : pc[p] \in {"idle", "done"}
  /\ \A s \in Subs :
       \/ hpc[s] \in {"idle", "done"}
       \/ hpc[s] = "next" /\ inbox[s] = <<>> /\ ~cancelled[s]
       \/ Stalled(s)
  /\ \A l \in Listeners : lpc[l] \in {"none", "loop", "done"}

\* A step of a goroutine inside the store: not the start of a call, not a
\* remote peer, not the validator's clock, not the caller of SearchValue.
StoreStep ==
  \/ \E p \in Procs : PutPublish(p)
  \/ \E p \in Procs : SubSubscribe(p)
  \/ \E p \in Procs : SubInstall(p)
  \/ \E p \in Procs : GetLocalStep(p)
  \/ \E p \in Procs : SearchWatch(p)
  \/ \E p \in Procs : SearchGroup(p)
  \/ \E p \in Procs : SearchAdd(p)
  \/ \E p \in Procs : CancelWatch(p)
  \/ \E s \in Subs : HNext(s)
  \/ \E s \in Subs : HExit(s)
  \/ \E s \in Subs : HPut(s)
  \/ \E s \in Subs : HLookup(s)
  \/ \E s \in Subs : HRLock(s)
  \/ \E s \in Subs, l \in Listeners : HSend(s, l)
  \/ \E l \in Listeners : LRegister(l)
  \/ \E l \in Listeners : LWake(l)
  \/ \E l \in Listeners : LRemove(l)

\* C1: at no time do two live message-consuming tasks exist; and as long as
\* the key is not cancelled, whatever the interleaving of the Subscribe,
\* GetValue, SearchValue and PutValue calls, at most one task is ever
\* started, every subscription created is the installed one with its task,
\* or was cancelled by the caller that lost, or is about to be decided, and
\* every caller whose Subscribe returned finds the installed subscription
\* and no error.
C1_OneTask ==
  /\ Cardinality({s \in Running : ~cancelled[s]}) <= 1
  /\ NoCancel =>
       /\ Cardinality(Started) <= 1
       /\ \A s \in 1..nsub :
            \/ subsPresent /\ subsVal = s /\ s \in Started /\ ~cancelled[s]
            \/ cancelled[s] /\ s \notin Started
            \/ \E p \in Procs : pc[p] = "SubInstall" /\ psub[p] = s
       /\ \A p \in Procs :
            PastSubscribe(p) =>
              /\ subsPresent /\ subsVal \in Started
              /\ op[p] = "Subscribe" => ret[p].err = "nil"

\* Two callers raced, both created a subscription, one installed its own and
\* the other cancelled its own; both have returned.
C1_Race ==
  /\ NoCancel
  /\ \E p, q \in Procs : p # q /\ PastSubscribe(p) /\ PastSubscribe(q)
  /\ \E s, t \in 1..nsub : s \in Started /\ cancelled[t] /\ t \notin Started

\* C2: while a Cancel that was called has not returned and a channel
\* SearchValue returned is not closed yet, the store can take a step:
\* Cancel is never left waiting for ever with the channel open.
C2_CancelCloses ==
  \A p \in Procs, l \in Listeners :
    (pc[p] = "CancelWatch" /\ Returned(l) /\ ~closed[l]) => ENABLED StoreStep

\* C3: a listener that joined with an empty channel and has not read yet
\* was registered before the value in its channel was published, so every
\* later accepted value was published to it too; once these values have
\* been dealt with, the value waiting in the channel, the only one the
\* listener observes when it starts to read, is the latest accepted one.
C3_LatestWins ==
  \A l \in Listeners :
    ( /\ Settled /\ invalid = {} /\ OneTask
      /\ lpc[l] = "loop" /\ ~closing[lgrp[l]] /\ ~lctx[l]
      /\ reads[l] = <<>> /\ seed[l] = 0 /\ buf[l] # <<>> )
    => buf[l] = <<cache>>

\* C4: a listener that does not read never stalls the task: the task is
\* never inside notifyWatchers with no case of its select ready.
C4_NoStall == \A s \in Subs : ~Stalled(s)

\* C5: a listener whose channel SearchValue seeded with the valid local entry
\* holds that entry until its caller reads, and the first value the caller
\* reads is that entry.
C5_SeedFirst ==
  \A l \in Listeners :
    seed[l] # 0 =>
      /\ reads[l] = <<>> => buf[l] = <<seed[l]>>
      /\ reads[l] # <<>> => reads[l][1] = seed[l]

\* A seeded listener read its seed although a newer value was accepted after
\* it joined.
C5_SeedRead ==
  \E l \in Listeners :
    /\ seed[l] # 0 /\ reads[l] # <<>> /\ lpc[l] = "loop"
    /\ cache # seed[l]

\* C6: with valid records a and b, a preferred by the selector, and an empty
\* cache to start with: after the task received b then a, and after it
\* received a then b, the cache holds a; in the second order b was rejected.
C6_Winner ==
  \A a, b \in Values :
    ( /\ a # b /\ Select(a, b) = 0
      /\ invalid = {} /\ ~Pending
      /\ Len(log) = 2 /\ log[1].s = log[2].s
      /\ {log[1].v, log[2].v} = {a, b} )
    => /\ cache = a
       /\ log[1].v = a => ~log[2].acc
       /\ log[1].v = b => log[1].acc /\ log[2].acc

\* The task received a then b and rejected b.
C6_Rejected ==
  /\ invalid = {} /\ ~Pending
  /\ Len(log) = 2 /\ log[1].s = log[2].s
  /\ log[1].v > log[2].v /\ ~log[2].acc /\ cache = log[1].v

\* C7: a message identical to the valid cached record is accepted on the
\* bytes.Equal branch, without the selector; the Put of such a message
\* leaves in the cache the record the message was compared with, and with
\* one task it does not change the cache.
C7_State ==
  \A i \in 1..Len(log) :
    (log[i].old = log[i].v /\ log[i].path # "invalid")
      => log[i].acc /\ log[i].path = "same"

C7_Put ==
  \A s \in Subs :
    (hpc[s] = "put" /\ hpc'[s] = "lookup" /\ hold[s] = hmsg[s])
      => /\ cache' = hold[s]
         /\ OneTask => cache' = cache

C7_Idempotent == []C7_State /\ [][C7_Put]_vars

\* The cached record was delivered again and the task has put it.
C7_Redelivered ==
  \E s \in Subs :
    /\ hpc[s] = "lookup" /\ hold[s] = hmsg[s] /\ cache = hmsg[s]
    /\ log[Len(log)].path = "same" /\ log[Len(log)].acc

\* C8: records the validator rejects are dropped and leave the cache empty;
\* the first record the validator accepts is accepted and becomes the cached
\* value; a GetValue that reads the cache after that returns it.
C8_State ==
  /\ \A i \in 1..Len(log) : log[i].path = "invalid" => ~log[i].acc
  /\ \A i \in 1..Len(log) :
       (log[i].path # "invalid" /\ \A j \in 1..(i - 1) : log[j].path = "invalid")
         => log[i].acc /\ log[i].old = 0
  /\ Len(Accepted) = 0 => cache = 0
  /\ (Len(Accepted) = 1 /\ ~Pending) => cache = Accepted[1].v

C8_Get ==
  \A p \in Procs :
    ( /\ pc[p] = "GetLocal" /\ pc'[p] = "done"
      /\ Len(Accepted) = 1 /\ ~Pending /\ Accepted[1].v \notin invalid )
    => ret'[p] = Result(Accepted[1].v, "nil", 0)

C8_FirstAccepted == []C8_State /\ [][C8_Get]_vars

\* GetValue returned the first accepted record, which came after a rejected
\* one.
C8_Returned ==
  \E p \in Procs :
    /\ op[p] = "Get" /\ pc[p] = "done" /\ ret[p].err = "nil"
    /\ Len(Accepted) = 1 /\ ret[p].val = Accepted[1].v
    /\ Len(log) > 1 /\ log[1].path = "invalid"

\* C9: the step of GetValue that reads the cache returns NotFound for no
\* entry, the validator's error for an entry the validator rejects, the
\* value and no error for a valid entry; no step of GetValue changes the
\* cache.
C9_Get ==
  \A p \in Procs :
    /\ (pc[p] = "GetLocal" /\ pc'[p] = "done") =>
         ret'[p] = IF cache = 0 THEN Result(0, "NotFound", 0)
                   ELSE IF cache \in invalid THEN Result(0, "Invalid", 0)
                   ELSE Result(cache, "nil", 0)
    /\ (op'[p] = "Get" /\ pc'[p] # pc[p]) => cache' = cache

C9_Outcomes == [][C9_Get]_vars

\* GetValue returned the validator's error for a stored entry.
C9_Invalid ==
  \E p \in Procs :
    op[p] = "Get" /\ pc[p] = "done" /\ ret[p].err = "Invalid" /\ cache # 0

\* C10: a Cancel that has returned completed normally (it did not panic) and
\* returned true exactly when it found an attached subscription: false for
\* a key with no entry and for a key that is only bootstrapped.
C10_CancelResult ==
  \A p \in Procs :
    (op[p] = "Cancel" /\ pc[p] = "done") =>
      /\ ret[p].err = "nil"
      /\ ret[p].val = IF ret[p].pre = 2 THEN 1 ELSE 0

\* C11: when the transport's Subscribe fails, the call (Subscribe, or the
\* GetValue or SearchValue that made it) ends normally with that error, and
\* the step leaves the lock p.mx, the subscription entry, the subscriptions
\* and the tasks as they were.
C11_Fails ==
  \A p \in Procs :
    (pc[p] = "SubSubscribe" /\ pc'[p] \notin {"SubSubscribe", "SubInstall"})
      => /\ pc'[p] = "done" /\ ret'[p].err = "SubErr"
         /\ mx' = mx /\ subsPresent' = subsPresent /\ subsVal' = subsVal
         /\ nsub' = nsub /\ hpc' = hpc

C11_FailsCleanly == [][C11_Fails]_vars

\* C12: a Subscribe, GetValue or SearchValue call that starts when the task
\* of the installed subscription has ended on a transport error goes on to
\* create a new subscription.
C12_Start ==
  \A p \in Procs :
    ( /\ pc[p] = "idle" /\ op'[p] \in {"Subscribe", "Get", "Search"}
      /\ subsPresent /\ subsVal # 0 /\ hpc[subsVal] = "done" )
    => pc'[p] = "SubSubscribe"

C12_Resubscribes == [][C12_Start]_vars

\* C16: when the write of an accepted value to the cache fails, the task
\* ends: it does not go on to publish the value to the watch group.
C16_Put ==
  \A s \in Subs :
    (hpc[s] = "put" /\ hpc'[s] # "put" /\ cache' # hmsg[s])
      => hpc'[s] = "done"

Bootstraps == rootLoops + Cardinality({s \in Subs : subLoop[s]})
LoopsRunning ==
  rootLoops + Cardinality({s \in Subs : subLoop[s] /\ hpc[s] # "done"})

\* C13: once Cancel has returned, with the calls before it finished, no call
\* started since and every task ended, no re-announce loop of the key is
\* running.
C13_LoopStops ==
  \A p \in Procs :
    ( /\ op[p] = "Cancel" /\ pc[p] = "done" /\ ret[p].err = "nil"
      /\ \A q \in Procs : q < p => pc[q] = "done"
      /\ \A q \in Procs : q > p => pc[q] = "idle"
      /\ \A s \in Subs : hpc[s] \in {"idle", "done"} )
    => LoopsRunning = 0

\* C17: bootstrap is triggered at most once for the key, and at most one
\* re-announce loop of the key is running.
C17_BootstrapOnce == Bootstraps <= 1 /\ LoopsRunning <= 1

\* A listener whose goroutine waits in its select, with the group open and
\* the scope not cancelled.
Live(l) == lpc[l] = "loop" /\ ~closing[lgrp[l]] /\ ~lctx[l]

\* No record was accepted twice.
AcceptedOnce ==
  \A i, j \in 1..Len(Accepted) : Accepted[i].v = Accepted[j].v => i = j

\* When SearchValue has released wg.lk the listener is in wg.listeners.
C14_Registered == \A l \in Listeners : lpc[l] # "start"

\* A record accepted after the seed read (the seed read found no entry, the
\* cache has one now) is in the channel of a listener that has not read.
C14_NoLoss ==
  \A l \in Listeners :
    ( /\ Settled /\ invalid = {} /\ OneTask
      /\ Live(l) /\ reads[l] = <<>> /\ seed[l] = 0 /\ cache # 0 )
    => buf[l] # <<>>

\* No record accepted once is read twice from one channel.
C14_NoRepeat ==
  \A l \in Listeners :
    AcceptedOnce =>
      \A i, j \in 1..Len(reads[l]) : reads[l][i] = reads[l][j] => i = j

\* C14: between the seed read and joining no update is lost and none is
\* repeated, and the listener is registered before SearchValue releases the
\* group's lock.
C14_SeedThenJoin == C14_Registered /\ C14_NoLoss /\ C14_NoRepeat

\* The place of record v in the order of acceptance.
AcceptedAt(v) == CHOOSE i \in 1..Len(Accepted) : Accepted[i].v = v

\* C15: what a listener reads follows the order of acceptance: it never
\* reads a record accepted earlier after one accepted later (the records
\* being accepted once each), also when a cancelled task is still at work
\* beside the new one.
C15_ReadOrder ==
  \A l \in Listeners :
    AcceptedOnce =>
      \A i, j \in 1..Len(reads[l]) :
        (i < j /\ reads[l][j] # 0)
          => AcceptedAt(reads[l][i]) <= AcceptedAt(reads[l][j])

\* C20: a step that changes a valid cache entry replaces it by a record the
\* selector prefers to it.
C20_Step ==
  (cache' # cache /\ cache # 0 /\ Validate(cache)) => Select(cache', cache) = 0

C20_CacheMonotone == [][C20_Step]_vars

\* Two SearchValue calls wait for each other: a holds wg.lk and waits for
\* p.watchLk at line 204, b holds p.watchLk and waits for wg.lk at line 195.
LockCycle(a, b) ==
  /\ pc[a] = "SearchAdd" /\ pc[b] = "SearchGroup"
  /\ watchLk = b /\ pwg[b] = pwg[a] /\ lk[pwg[a]] = a

\* C18: no two operations ever wait for each other's locks.
C18_NoDeadlock == \A a, b \in Procs : ~LockCycle(a, b)

\* C19: wg.listeners is never written while notifyWatchers ranges over it.
C19_NoMapRace == ~race

=============================================================================
